---- MODULE Spec2Model ----
(***************************************************************************)
(* Model of excel_processor.py: main() and process_excel_file().           *)
(*                                                                         *)
(* A path is a sequence of tokens.  The tokens "/" and "." are the path    *)
(* separator and the extension separator; every other token is a run of    *)
(* characters containing neither.  The token set is uniquely decodable, so *)
(* two token sequences are equal exactly when the strings they spell are.  *)
(*                                                                         *)
(* A spreadsheet file holds a sheet: a sequence of rows of cells, the      *)
(* first row being the header row.  Header labels and cell values are      *)
(* encoded as integers.  A DataFrame has column labels and data rows.      *)
(* The file system maps paths to regular files and directories, without    *)
(* links: two different paths name two different files.                    *)
(***************************************************************************)
EXTENDS Integers, Sequences, FiniteSets, TLC

VARIABLES argv, fs, fs0, pc, output_file_path, df, result, log, stdout,
          exitCode, steps, escaped, run, prevResult

vars == <<argv, fs, fs0, pc, output_file_path, df, result, log, stdout,
          exitCode, steps, escaped, run, prevResult>>

(* ------------------------------ bounds --------------------------------- *)
MaxCols == 4
MaxRows == 2
MaxPathLen == 3
MaxRuns == 2

(* --------------------------- optional values --------------------------- *)
None == [some |-> FALSE, path |-> <<>>]
Some(p) == [some |-> TRUE, path |-> p]
NoDf == [some |-> FALSE, columns |-> <<>>, rows |-> <<>>]

(* `if not result`: the test inverted.                                    *)
Falsy(r) == ~(r.some /\ r.path # <<>>)

(* Python truthiness of `result`: None and the empty string are falsy.     *)
Truthy(r) == r.some /\ r.path # <<>>

(* ------------------------------- paths --------------------------------- *)
sep == "/"
extsep == "."
Prog == <<"excel_processor", ".", "py">>

(* str.lower() on one token.                                               *)
LowerTok(t) ==
    CASE t = "XLSX" -> "xlsx"
      [] t = "Xlsx" -> "xlsx"
      [] t = "ODS" -> "ods"
      [] OTHER -> t

lower(s) == [i \in 1..Len(s) |-> LowerTok(s[i])]

(* str.rfind for a single separator token: 0 when absent.                  *)
rfind(p, t) ==
    LET hits == {i \in 1..Len(p) : p[i] = t}
    IN IF hits = {} THEN 0 ELSE CHOOSE i \in hits : \A j \in hits : j <= i

(* os.path.splitext: the extension starts at the last dot of the last      *)
(* path component, unless that component consists of leading dots up to it.*)
splitext(p) ==
    LET sepIndex == rfind(p, sep)
        dotIndex == rfind(p, extsep)
    IN IF dotIndex > sepIndex
          /\ \E k \in (sepIndex + 1)..(dotIndex - 1) : p[k] # extsep
       THEN <<SubSeq(p, 1, dotIndex - 1), SubSeq(p, dotIndex, Len(p))>>
       ELSE <<p, <<>>>>

(* The allow-list widened by one text format.                              *)
valid_extensions_with_csv ==
    { <<".", "xlsx">>, <<".", "xls">>, <<".", "xlsm">>, <<".", "xlsb">>,
      <<".", "odf">>, <<".", "ods">>, <<".", "odt">>, <<".", "csv">> }

valid_extensions ==
    { <<".", "xlsx">>, <<".", "xls">>, <<".", "xlsm">>, <<".", "xlsb">>,
      <<".", "odf">>, <<".", "ods">>, <<".", "odt">> }

ValidExtension(file_ext) == lower(file_ext) \in valid_extensions

(* The suffix left out.                                                    *)
processed_suffix_empty == <<>>

processed_suffix == <<"_processed">>

(* The extension re-appended in lower case.                                *)
DerivedOutputPathLowered(input_file_path) ==
    LET parts == splitext(input_file_path)
    IN parts[1] \o <<"_processed">> \o lower(parts[2])

(* f"{file_name}_processed{file_ext}"                                      *)
DerivedOutputPath(input_file_path) ==
    LET parts == splitext(input_file_path)
    IN parts[1] \o processed_suffix \o parts[2]

(* ---------------------------- file system ------------------------------ *)
Missing == [kind |-> "missing", sheet |-> <<>>]
Dir == [kind |-> "dir", sheet |-> <<>>]
Corrupt == [kind |-> "corrupt", sheet |-> <<>>]
File(sheet) == [kind |-> "file", sheet |-> sheet]

EmptyFs == [q \in {} |-> Missing]

Lookup(f, p) == IF p \in DOMAIN f THEN f[p] ELSE Missing

Put(f, p, c) == [q \in (DOMAIN f) \cup {p} |-> IF q = p THEN c ELSE f[q]]

(* os.path.exists in place of os.path.isfile: a directory passes.          *)
exists(f, p) == Lookup(f, p).kind # "missing"

(* os.path.isfile: true for an existing regular file only.                 *)
isfile(f, p) == Lookup(f, p).kind \in {"file", "corrupt"}

(* A file can be created or replaced at p: never at the empty path, never  *)
(* where a directory stands.                                               *)
CanCreate(f, p) == p # <<>> /\ Lookup(f, p).kind # "dir"

(* ---------------------------- data frames ------------------------------ *)
(* `< 2` in place of `< 3`.                                                *)
MinColsOffByOne == 3 - 1

MinCols == 3
NumSelected == 3

Min(a, b) == IF a < b THEN a ELSE b

(* pd.read_excel: first sheet row is the header, the rest are data rows;   *)
(* a blank sheet loads as a frame without columns.  Header cells are       *)
(* distinct and non-blank, so the reader takes them as the column labels.  *)
read_excel(sheet) ==
    IF sheet = <<>>
    THEN [some |-> TRUE, columns |-> <<>>, rows |-> <<>>]
    ELSE [some |-> TRUE, columns |-> Head(sheet), rows |-> Tail(sheet)]

(* df.iloc[:n]: the leading n rows, every column kept.                     *)
iloc_rows(d, n) ==
    [some |-> TRUE,
     columns |-> d.columns,
     rows |-> SubSeq(d.rows, 1, Min(n, Len(d.rows)))]

(* df.iloc[:, :n]: the leading n columns by position, every row kept.      *)
iloc(d, n) ==
    [some |-> TRUE,
     columns |-> SubSeq(d.columns, 1, Min(n, Len(d.columns))),
     rows |-> [r \in 1..Len(d.rows) |->
                  SubSeq(d.rows[r], 1, Min(n, Len(d.rows[r])))]]

(* to_excel with the default index=True: a leading index column.          *)
to_excel_with_index(d) ==
    <<<<0>> \o d.columns>> \o [r \in 1..Len(d.rows) |-> <<r - 1>> \o d.rows[r]]

(* DataFrame.to_excel(path, index=False): header row, then the data rows,  *)
(* no index column.                                                        *)
to_excel(d) == <<d.columns>> \o d.rows

(* ------------------------------ logging -------------------------------- *)
Rec(level, msg) == [level |-> level, msg |-> msg]

MsgNotFound == "Input file not found"
MsgInvalidType == "Invalid file type"
MsgReading == "Reading Excel file"
MsgFewColumns == "Input file has fewer than 3 columns"
MsgExtracted == "Extracted first three columns"
MsgCreated == "Successfully created output file"
MsgProcessingError == "Error processing Excel file"
MsgMissingArgs == "Missing required arguments"
MsgUsage == "Usage"
MsgSuccess == "Successfully processed file. Output saved to"
MsgFailed == "Failed to process Excel file. Check the logs for details."
MsgUnexpected == "Unexpected error in main execution"

(* ----------------------------- exceptions ------------------------------ *)
(* Exception classes the read and write calls raise.                       *)
ExcClasses == {"ValueError", "OSError"}

(* `except OSError`: a narrower clause.                                    *)
ExceptOSErrorOnly(e) == e = "OSError"

(* `except Exception`: every class above derives from Exception.           *)
ExceptClause(e) == e \in ExcClasses

(* A path holding a byte that the stdout encoding cannot encode.           *)
Unencodable == {"<e9>"}
Encodable(p) == \A i \in 1..Len(p) : p[i] \notin Unencodable

(* --------------------------- initial states ---------------------------- *)
Seeds == {1, 2}
(* Header labels: distinct within a sheet, in two different orders.         *)
Label(hp, i) == IF hp = 0 THEN 100 + i ELSE 200 - i
Cell(seed, i) == seed * 10 + i

SeqsUpTo(S, n) == UNION {[1..k -> S] : k \in 0..n}

MkSheet(c, hp, seeds) ==
    <<[i \in 1..c |-> Label(hp, i)]>>
      \o [r \in 1..Len(seeds) |-> [i \in 1..c |-> Cell(seeds[r], i)]]

Sheets ==
    {<<>>} \cup {MkSheet(c, hp, s) :
                    c \in 1..MaxCols, hp \in {0, 1}, s \in SeqsUpTo(Seeds, MaxRows)}

Contents == {File(s) : s \in Sheets} \cup {Dir, Corrupt}

StaleSheet == <<<<7, 8>>, <<9, 9>>>>

SamplePaths ==
    { <<>>,
      <<"a", ".", "xlsx">>,
      <<"a", ".", "XLSX">>,
      <<"a", ".", "csv">>,
      <<"a">>,
      <<".", "xlsx">>,
      <<"d", ".", "ods", "/", "a">>,
      <<"<e9>", ".", "ods">> }

SampleOutputs ==
    { <<>>,
      <<"a", ".", "xlsx">>,
      <<"out", ".", "xlsx">>,
      <<"a", "_processed", ".", "xlsx">> }

ArgvChoices(inputs, outputs) ==
    {<<Prog>>} \cup {<<Prog, i>> : i \in inputs}
               \cup {<<Prog, i, o>> : i \in inputs, o \in outputs}

InitLocals ==
    /\ pc = "main"
    /\ output_file_path = None
    /\ df = NoDf
    /\ result = None
    /\ log = <<>>
    /\ stdout = <<>>
    /\ exitCode = -1
    /\ steps = <<>>
    /\ escaped = FALSE
    /\ run = 1
    /\ prevResult = None

Init ==
    /\ argv \in ArgvChoices(SamplePaths, SampleOutputs)
    /\ \E p \in SamplePaths \ {<<>>}, c \in Contents,
          q \in {<<"out", ".", "xlsx">>, <<"a", "_processed", ".", "xlsx">>},
          y \in {Missing, Dir, File(StaleSheet)} :
            fs = IF y = Missing THEN Put(EmptyFs, p, c)
                 ELSE Put(Put(EmptyFs, q, y), p, c)
    /\ fs0 = fs
    /\ InitLocals

(* ------------------------------- main ---------------------------------- *)
input_file == argv[2]

Append2(s, a, b) == Append(Append(s, a), b)

(* main: len(sys.argv) < 2                                                 *)
MainMissingArgs ==
    /\ pc = "main"
    /\ Len(argv) < 2
    /\ log' = Append2(log, Rec("ERROR", MsgMissingArgs), Rec("INFO", MsgUsage))
    /\ exitCode' = 1
    /\ pc' = "exit"
    /\ UNCHANGED <<argv, fs, fs0, output_file_path, df, result, stdout, steps,
                   escaped, run, prevResult>>

(* main: read the arguments and call process_excel_file                    *)
MainCall ==
    /\ pc = "main"
    /\ Len(argv) >= 2
    /\ output_file_path' = IF Len(argv) > 2 THEN Some(argv[3]) ELSE None
    /\ pc' = "exists"
    /\ UNCHANGED <<argv, fs, fs0, df, result, log, stdout, exitCode, steps,
                   escaped, run, prevResult>>

(* ------------------------ process_excel_file --------------------------- *)
(* The existence check with its `return None` missing.                     *)
ValidateExistsFallsThrough ==
    /\ pc = "exists"
    /\ steps' = Append(steps, "exists")
    /\ log' = IF ~isfile(fs, input_file)
              THEN Append(log, Rec("ERROR", MsgNotFound))
              ELSE log
    /\ pc' = "ext"
    /\ UNCHANGED <<argv, fs, fs0, output_file_path, df, result, stdout,
                   exitCode, escaped, run, prevResult>>

(* if not os.path.isfile(input_file_path): log, return None                *)
ValidateExists ==
    /\ pc = "exists"
    /\ steps' = Append(steps, "exists")
    /\ IF ~isfile(fs, input_file)
       THEN /\ log' = Append(log, Rec("ERROR", MsgNotFound))
            /\ result' = None
            /\ pc' = "report"
       ELSE /\ pc' = "ext"
            /\ UNCHANGED <<log, result>>
    /\ UNCHANGED <<argv, fs, fs0, output_file_path, df, stdout, exitCode,
                   escaped, run, prevResult>>

(* if file_ext.lower() not in valid_extensions: log, return None           *)
ValidateExtension ==
    /\ pc = "ext"
    /\ steps' = Append(steps, "ext")
    /\ LET file_ext == splitext(input_file)[2]
       IN IF ~ValidExtension(file_ext)
          THEN /\ log' = Append(log, Rec("ERROR", MsgInvalidType))
               /\ result' = None
               /\ pc' = "report"
          ELSE /\ pc' = "resolve"
               /\ UNCHANGED <<log, result>>
    /\ UNCHANGED <<argv, fs, fs0, output_file_path, df, stdout, exitCode,
                   escaped, run, prevResult>>

(* if output_file_path is None: derive it from the input path              *)
ResolveOutputPath ==
    /\ pc = "resolve"
    /\ steps' = Append(steps, "resolve")
    /\ output_file_path' = IF ~output_file_path.some
                           THEN Some(DerivedOutputPath(input_file))
                           ELSE output_file_path
    /\ pc' = "read"
    /\ UNCHANGED <<argv, fs, fs0, df, result, log, stdout, exitCode, escaped,
                   run, prevResult>>

(* An exception e raised inside the try block, after the records `lg`.     *)
(* The except clause logs it and returns None; an exception it does not    *)
(* name leaves the function.                                               *)
Raise(e, lg) ==
    IF ExceptClause(e)
    THEN /\ log' = Append(lg, Rec("ERROR", MsgProcessingError))
         /\ result' = None
         /\ pc' = "report"
         /\ UNCHANGED escaped
    ELSE /\ log' = lg
         /\ escaped' = TRUE
         /\ pc' = "main_except"
         /\ UNCHANGED result

(* df = pd.read_excel(input_file_path)                                     *)
Read ==
    /\ pc = "read"
    /\ steps' = Append(steps, "read")
    /\ LET lg == Append(log, Rec("INFO", MsgReading))
           c == Lookup(fs, input_file)
       IN \/ /\ c.kind = "file"
             /\ df' = read_excel(c.sheet)
             /\ log' = lg
             /\ pc' = "cols"
             /\ UNCHANGED <<result, escaped>>
          \/ /\ \E e \in ExcClasses : Raise(e, lg)
             /\ UNCHANGED df
    /\ UNCHANGED <<argv, fs, fs0, output_file_path, stdout, exitCode, run,
                   prevResult>>

(* if len(df.columns) < 3: warn, return None                               *)
ValidateColumnCount ==
    /\ pc = "cols"
    /\ steps' = Append(steps, "cols")
    /\ IF Len(df.columns) < MinCols
       THEN /\ log' = Append(log, Rec("WARNING", MsgFewColumns))
            /\ result' = None
            /\ pc' = "report"
       ELSE /\ pc' = "write"
            /\ UNCHANGED <<log, result>>
    /\ UNCHANGED <<argv, fs, fs0, output_file_path, df, stdout, exitCode,
                   escaped, run, prevResult>>

(* first_three_cols = df.iloc[:, :3]; first_three_cols.to_excel(...)       *)
(* A failed write leaves the target as it was or partially written.        *)
SelectAndWrite ==
    /\ pc = "write"
    /\ steps' = Append(steps, "write")
    /\ LET first_three_cols == iloc(df, NumSelected)
           out == output_file_path.path
           lg == Append(log, Rec("INFO", MsgExtracted))
       IN \/ /\ CanCreate(fs, out)
             /\ fs' = Put(fs, out, File(to_excel(first_three_cols)))
             /\ log' = Append(lg, Rec("INFO", MsgCreated))
             /\ result' = Some(out)
             /\ pc' = "report"
             /\ UNCHANGED escaped
          \/ /\ \E e \in ExcClasses : Raise(e, lg)
             /\ \/ UNCHANGED fs
                \/ /\ CanCreate(fs, out)
                   /\ fs' = Put(fs, out, Corrupt)
    /\ UNCHANGED <<argv, fs0, output_file_path, df, stdout, exitCode, run,
                   prevResult>>

(* ------------------------- main, after the call ------------------------ *)
Line(msg, path) == [msg |-> msg, path |-> path]

(* if result: log, print, exit 0; else: log, print, exit 1.  print raises  *)
(* only for a path the stdout encoding rejects, and then only under a      *)
(* strict error handler.                                                   *)
MainReport ==
    /\ pc = "report"
    /\ IF Truthy(result)
       THEN /\ log' = Append(log, Rec("INFO", MsgSuccess))
            /\ \/ /\ stdout' = Append(stdout, Line(MsgSuccess, result.path))
                  /\ exitCode' = 0
                  /\ pc' = "exit"
               \/ /\ ~Encodable(result.path)
                  /\ pc' = "main_except"
                  /\ UNCHANGED <<stdout, exitCode>>
       ELSE /\ log' = Append(log, Rec("ERROR", MsgFailed))
            /\ stdout' = Append(stdout, Line(MsgFailed, <<>>))
            /\ exitCode' = 1
            /\ pc' = "exit"
    /\ UNCHANGED <<argv, fs, fs0, output_file_path, df, result, steps, escaped,
                   run, prevResult>>

(* except Exception in main: log, exit 1                                   *)
MainExcept ==
    /\ pc = "main_except"
    /\ log' = Append(log, Rec("ERROR", MsgUnexpected))
    /\ exitCode' = 1
    /\ pc' = "exit"
    /\ UNCHANGED <<argv, fs, fs0, output_file_path, df, result, stdout, steps,
                   escaped, run, prevResult>>

(* The same command line is run again: a new process, the same files.      *)
RunAgain ==
    /\ pc = "exit"
    /\ run < MaxRuns
    /\ run' = run + 1
    /\ prevResult' = result
    /\ fs0' = fs
    /\ pc' = "main"
    /\ output_file_path' = None
    /\ df' = NoDf
    /\ result' = None
    /\ log' = <<>>
    /\ stdout' = <<>>
    /\ exitCode' = -1
    /\ steps' = <<>>
    /\ escaped' = FALSE
    /\ UNCHANGED <<argv, fs>>

Next ==
    \/ MainMissingArgs
    \/ MainCall
    \/ ValidateExists
    \/ ValidateExtension
    \/ ResolveOutputPath
    \/ Read
    \/ ValidateColumnCount
    \/ SelectAndWrite
    \/ MainReport
    \/ MainExcept
    \/ RunAgain

Spec == Init /\ [][Next]_vars

(* ------------- second specification: every short path ------------------ *)
Alphabet == {"/", ".", "a", "xlsx", "XLSX", "csv", "<e9>"}

TokenPaths == SeqsUpTo(Alphabet, MaxPathLen)

PathContents ==
    { Missing, Corrupt, File(MkSheet(2, 0, <<1>>)), File(MkSheet(4, 0, <<1, 2>>)) }

PathInit ==
    /\ \E i \in TokenPaths, c \in PathContents :
          /\ argv \in {<<Prog>>, <<Prog, i>>, <<Prog, i, i>>,
                       <<Prog, i, <<"out", ".", "xlsx">>>>}
          /\ fs = IF i = <<>> \/ c = Missing THEN EmptyFs ELSE Put(EmptyFs, i, c)
    /\ fs0 = fs
    /\ InitLocals

PathSpec == PathInit /\ [][Next]_vars

TypeOK ==
    /\ pc \in {"main", "exists", "ext", "resolve", "read", "cols", "write",
               "report", "main_except", "exit"}
    /\ exitCode \in {-1, 0, 1}
    /\ run \in 1..MaxRuns


(* ======================= properties of the program ===================== *)
HasInput == Len(argv) >= 2

Logged(level, msg) ==
    \E i \in 1..Len(log) : log[i] = [level |-> level, msg |-> msg]

Printed(msg, path) ==
    \E i \in 1..Len(stdout) : stdout[i] = [msg |-> msg, path |-> path]

Returned == pc \in {"report", "exit"}

(* The spellings, in any case, of the seven allowed extension names.       *)
AllowedNames ==
    {"xlsx", "XLSX", "Xlsx", "xls", "xlsm", "xlsb", "odf", "ods", "ODS", "odt"}

(* p ends with a dot and an allowed name, and the last path component has  *)
(* a character other than a dot before that dot.                           *)
HasAllowedExtension(p) ==
    LET n == Len(p)
    IN /\ n >= 3
       /\ p[n - 1] = "."
       /\ p[n] \in AllowedNames
       /\ \E k \in 1..(n - 2) :
            /\ p[k] # "."
            /\ \A j \in k..(n - 2) : p[j] # "/"

RegularFile(f, p) == p \in DOMAIN f /\ f[p].kind \in {"file", "corrupt"}

InputSheet == fs0[input_file].sheet

(* The leading three cells of every row of a sheet, header row included.   *)
FirstThree(sheet) ==
    [r \in 1..Len(sheet) |-> <<sheet[r][1], sheet[r][2], sheet[r][3]>>]

WideInput ==
    /\ HasInput
    /\ RegularFile(fs0, input_file)
    /\ fs0[input_file].kind = "file"
    /\ InputSheet # <<>>
    /\ Len(InputSheet[1]) >= 3

C2_AsStated ==
    (HasInput /\ ~HasAllowedExtension(input_file))
        => /\ fs = fs0
           /\ ~df.some
           /\ pc = "exit" =>
                /\ exitCode = 1
                /\ Logged("ERROR", "Invalid file type")

(* C2 amended: for every input path that is an existing regular file and   *)
(* whose extension is not allowed, the run fails with the invalid-file-    *)
(* type message whatever the file holds, the file is never read and no     *)
(* file is written.                                                        *)
C2_InvalidExtension ==
    (HasInput /\ RegularFile(fs0, input_file) /\ ~HasAllowedExtension(input_file))
        => /\ fs = fs0
           /\ ~df.some
           /\ \A i \in 1..Len(steps) : steps[i] \in {"exists", "ext"}
           /\ Returned => ~result.some /\ Logged("ERROR", "Invalid file type")
           /\ pc = "exit" =>
                /\ exitCode = 1
                /\ ~Printed("Successfully processed file. Output saved to",
                            result.path)

C2_Witness ==
    /\ WideInput
    /\ ~HasAllowedExtension(input_file)
    /\ pc = "exit"
    /\ exitCode = 1
    /\ Logged("ERROR", "Invalid file type")

(* C3: when the loaded dataset has fewer than 3 columns, convert returns   *)
(* no result, the write step is not reached and no file is created or      *)
(* modified, the count is reported at warning level, and the exit code     *)
(* is 1.                                                                   *)
C3_FewColumns ==
    (df.some /\ Len(df.columns) < 3)
        => /\ fs = fs0
           /\ \A i \in 1..Len(steps) : steps[i] # "write"
           /\ Returned =>
                /\ ~result.some
                /\ Logged("WARNING", "Input file has fewer than 3 columns")
                /\ ~Logged("ERROR", "Input file has fewer than 3 columns")
           /\ pc = "exit" => exitCode = 1

C3_Witness ==
    /\ df.some
    /\ Len(df.columns) = 2
    /\ pc = "exit"
    /\ exitCode = 1
    /\ Len(argv) = 3
    /\ RegularFile(fs, argv[3])
    /\ argv[3] # argv[2]

(* C4: when the input path is not an existing regular file, whatever its   *)
(* extension and with or without an output path, the run fails with the    *)
(* not-found message, the read is never attempted and no file is created   *)
(* or modified.                                                            *)
C4_NotFound ==
    (HasInput /\ ~RegularFile(fs0, input_file))
        => /\ fs = fs0
           /\ ~df.some
           /\ \A i \in 1..Len(steps) : steps[i] = "exists"
           /\ Returned => ~result.some /\ Logged("ERROR", "Input file not found")
           /\ pc = "exit" => exitCode = 1

C4_Witness ==
    /\ HasInput
    /\ input_file \in DOMAIN fs0
    /\ fs0[input_file].kind = "dir"
    /\ HasAllowedExtension(input_file)
    /\ Len(argv) = 3
    /\ pc = "exit"
    /\ Logged("ERROR", "Input file not found")

SuccessLinePrinted ==
    \E i \in 1..Len(stdout) :
        stdout[i].msg = "Successfully processed file. Output saved to"

(* C5 as stated: the exit code is 0 if and only if convert returned an     *)
(* output path, exactly then stdout carries the success line with the      *)
(* written path; in every other run the exit code is 1 and the success     *)
(* line is not printed.                                                    *)
C5_AsStated ==
    pc = "exit"
        => /\ exitCode \in {0, 1}
           /\ exitCode = 0 <=> result.some
           /\ result.some <=> SuccessLinePrinted

(* C5 amended: the exit code is 0 if and only if convert returned an       *)
(* output path and the entry point then met no unanticipated error;        *)
(* exactly then stdout carries the success line with the path that was     *)
(* written; in every other run the exit code is 1 and the success line is  *)
(* not printed.                                                            *)
C5_ExitCode ==
    pc = "exit"
        => /\ exitCode \in {0, 1}
           /\ exitCode = 0 <=>
                (result.some /\ ~Logged("ERROR", "Unexpected error in main execution"))
           /\ exitCode = 0 <=> SuccessLinePrinted
           /\ exitCode = 0 =>
                /\ stdout = <<[msg |-> "Successfully processed file. Output saved to",
                               path |-> result.path]>>
                /\ RegularFile(fs, result.path)
                /\ fs[result.path].kind = "file"

C5_Witness ==
    /\ pc = "exit"
    /\ exitCode = 1
    /\ result.some
    /\ Logged("ERROR", "Unexpected error in main execution")
    /\ ~SuccessLinePrinted

ConvertFailures ==
    { [level |-> "ERROR", msg |-> "Input file not found"],
      [level |-> "ERROR", msg |-> "Invalid file type"],
      [level |-> "ERROR", msg |-> "Error processing Excel file"],
      [level |-> "WARNING", msg |-> "Input file has fewer than 3 columns"] }

(* C7: convert never raises to its caller: an exception of the read or     *)
(* the write ends with convert returning no result after logging the       *)
(* reason; every failure is logged once and no step runs twice.            *)
C7_NeverRaises ==
    /\ ~escaped
    /\ pc = "main_except" => result.some
    /\ (pc = "report" /\ ~result.some)
          => /\ Len(log) >= 1
             /\ log[Len(log)] \in ConvertFailures
    /\ Cardinality({i \in 1..Len(log) : log[i] \in ConvertFailures}) <= 1
    /\ \A i, j \in 1..Len(steps) : steps[i] = steps[j] => i = j
    /\ (Returned /\ result.some)
          => \A i \in 1..Len(log) : log[i] \notin ConvertFailures

C7_Witness ==
    /\ pc = "report"
    /\ ~result.some
    /\ steps = <<"exists", "ext", "resolve", "read", "cols", "write">>
    /\ log[Len(log)] = [level |-> "ERROR", msg |-> "Error processing Excel file"]
    /\ fs # fs0

StepOrder == <<"exists", "ext", "resolve", "read", "cols", "write">>

Ran(step) == \E i \in 1..Len(steps) : steps[i] = step

(* C8: the steps run in the order exists, extension, resolve, read,        *)
(* column count, write, none twice; the extension is examined only for an  *)
(* existing file, the read happens only after both path checks, the write  *)
(* only after a read of at least 3 columns, and the first failing check    *)
(* is the one reported.                                                    *)
C8_StepOrder ==
    /\ Len(steps) <= Len(StepOrder)
    /\ steps = SubSeq(StepOrder, 1, Len(steps))
    /\ Ran("ext") => RegularFile(fs0, input_file)
    /\ Ran("resolve") => HasAllowedExtension(input_file)
    /\ Ran("cols") => df.some
    /\ Ran("write") => df.some /\ Len(df.columns) >= 3
    /\ (Returned /\ HasInput /\ ~RegularFile(fs0, input_file))
          => /\ Logged("ERROR", "Input file not found")
             /\ ~Logged("ERROR", "Invalid file type")
             /\ steps = <<"exists">>
    /\ (Returned /\ HasInput /\ RegularFile(fs0, input_file)
                 /\ ~HasAllowedExtension(input_file))
          => /\ Logged("ERROR", "Invalid file type")
             /\ steps = <<"exists", "ext">>

C8_Witness ==
    /\ pc = "exit"
    /\ HasInput
    /\ ~RegularFile(fs0, input_file)
    /\ ~HasAllowedExtension(input_file)
    /\ input_file # <<>>
    /\ Logged("ERROR", "Input file not found")

Content(f, p) == IF p \in DOMAIN f THEN f[p] ELSE [kind |-> "missing", sheet |-> <<>>]

====
